---- MODULE Spec2Model ----
(***************************************************************************)
(* State-machine model of the audio session controller of src/App.tsx      *)
(* (React component App) and of the gating done by                         *)
(* src/components/Controls.tsx.                                            *)
(*                                                                         *)
(* Time is counted in ticks of the output AudioContext clock.  Objects     *)
(* created by the program (audio contexts, media streams, script           *)
(* processors, sessions, buffer sources) are numbered in creation order;   *)
(* a ref holding 0 is a ref holding null.                                  *)
(***************************************************************************)
EXTENDS Integers, Sequences, FiniteSets

VARIABLES
    \* React state of App (src/App.tsx:40-43) and whether App is mounted
    status, hasPermission, isUserSpeaking, isAiSpeaking, mounted,
    \* environment: process.env.API_KEY, the mount-time permission request
    API_KEY, permReq,
    \* refs (src/App.tsx:46-58)
    inputAudioContextRef, outputAudioContextRef, inputSourceRef, processorRef,
    outputNodeRef, sessionPromiseRef, streamRef, nextStartTimeRef, sourcesRef,
    \* objects the refs point to
    inCtx, outCtx, streams, procs, sessions, handles,
    \* suspended coroutines: connect() awaiting getUserMedia, onmessage awaiting decode
    awaitingMedia, decoding,
    \* history: budget counters, the interruptions handled
    nconnect, nframes, alerts, interruptions,
    \* the sample a codec round trip is run on, and how far it has got
    codec,
    \* how many connect() calls, audio messages and frames the behaviour may have
    eventBudget,
    \* history: the audio messages onmessage has been called with
    nchunks

vars == <<status, hasPermission, isUserSpeaking, isAiSpeaking, mounted,
          API_KEY, permReq,
          inputAudioContextRef, outputAudioContextRef, inputSourceRef, processorRef,
          outputNodeRef, sessionPromiseRef, streamRef, nextStartTimeRef, sourcesRef,
          inCtx, outCtx, streams, procs, sessions, handles,
          awaitingMedia, decoding,
          nconnect, nframes, alerts, interruptions, codec, eventBudget, nchunks>>

reactState == <<status, hasPermission, isUserSpeaking, isAiSpeaking>>

refs == <<inputAudioContextRef, outputAudioContextRef, inputSourceRef, processorRef,
          outputNodeRef, sessionPromiseRef, streamRef, nextStartTimeRef, sourcesRef>>

objects == <<inCtx, outCtx, streams, procs, sessions, handles>>

\* ---------------------------------------------------------------- bounds
\* connect() calls that get past the API-key check
MaxConnects == 2
\* inbound messages that carry audio
MaxChunks == 2
\* captured microphone frames
MaxFrames == 2
\* highest value of an output clock
MaxClock == 2
\* alerts raised by connect() without an API key
MaxAlerts == 2
\* longest inbound chunk, in clock ticks
MaxDuration == 2
\* connect() calls, audio messages and frames of one behaviour, together
MaxEvents == 3

Durations == 1..MaxDuration

\* ------------------------------------------------------------- constants
DISCONNECTED == "DISCONNECTED"
CONNECTING == "CONNECTING"
CONNECTED == "CONNECTED"
ERROR == "ERROR"

ConnectionStatus == {DISCONNECTED, CONNECTING, CONNECTED, ERROR}

\* microphone samples are written in hundredths: 5 is the float 0.05
SampleDen == 100
\* the visual-feedback threshold 0.02, in hundredths
VadThreshold == 2

\* the frames the microphone delivers: silence, a frame whose RMS is exactly
\* the threshold, and a frame of RMS 0.05 with a negative sample
Frames == {<<0, 0>>, <<2, 2>>, <<5, -5>>}
Silence == <<0, 0>>

Max(a, b) == IF a >= b THEN a ELSE b

RECURSIVE SumSq(_)
SumSq(f) == IF f = <<>> THEN 0 ELSE Head(f) * Head(f) + SumSq(Tail(f))

\* an indicator that is also active at the threshold
RmsAtLeastThreshold(f) == SumSq(f) >= VadThreshold * VadThreshold * Len(f)

\* rms > 0.02 with rms = sqrt(sum / length): both sides squared, in hundredths
RmsAboveThreshold(f) == SumSq(f) > VadThreshold * VadThreshold * Len(f)

\* one quantization step of 16-bit PCM is 1/32768
PcmScale == 32768

\* the value a store into an Int16Array keeps of the integer v
ToInt16(v) == LET m == v % 65536 IN IF m >= 32768 THEN m - 65536 ELSE m

\* the quotient a / b truncated towards zero, for b > 0
Trunc(a, b) == IF a < 0 THEN -((-a) \div b) ELSE a \div b

\* an encoder that scales every sample by 32768 and does not clamp
FloatTo16BitPcmWrap(n, den) == ToInt16(Trunc(n * 32768, den))

\* 16-bit PCM value of the sample n/den: clamp to [-1,1], scale by 32767
\* (>= 0) or 32768 (< 0), truncate towards zero as the store into an
\* Int16Array does
FloatTo16BitPcm(n, den) ==
    LET c == IF n > den THEN den ELSE IF n < -den THEN -den ELSE n
    IN  ToInt16(IF c < 0 THEN Trunc(c * 32768, den) ELSE Trunc(c * 32767, den))

\* the two bytes of a 16-bit value, low byte first
Int16Bytes(v) == <<(v % 65536) % 256, (v % 65536) \div 256>>

\* the 16-bit signed value of two bytes, low byte first
BytesInt16(b) == ToInt16(b[1] + 256 * b[2])

\* the float a 16-bit value decodes to: v / 32768, as a fraction
DecodeSample(v) == [num |-> v, den |-> PcmScale]

\* a microphone sample, in hundredths, as 16-bit PCM
EncodeSample(x) == FloatTo16BitPcm(x, SampleDen)

createPcmBlob(f) == [i \in 1..Len(f) |-> EncodeSample(f[i])]

\* React drops state updates of an unmounted component
SetState(old, new) == IF mounted THEN new ELSE old

\* whether one more connect(), audio message or frame fits the bounds
Budget == nconnect + nchunks + nframes < eventBudget

\* no codec round trip is being followed
NoSample == [stage |-> "idle", x |-> 0, bytes |-> <<>>, out |-> DecodeSample(0)]

\* ------------------------------------------------------------------ Init
\* App as constructed
AppInit ==
    /\ status = DISCONNECTED
    /\ hasPermission = FALSE
    /\ isUserSpeaking = FALSE
    /\ isAiSpeaking = FALSE
    /\ mounted = TRUE
    /\ API_KEY \in {"", "key"}
    /\ permReq = "pending"
    /\ inputAudioContextRef = 0
    /\ outputAudioContextRef = 0
    /\ inputSourceRef = 0
    /\ processorRef = 0
    /\ outputNodeRef = 0
    /\ sessionPromiseRef = 0
    /\ streamRef = 0
    /\ nextStartTimeRef = 0
    /\ sourcesRef = {}
    /\ inCtx = <<>>
    /\ outCtx = <<>>
    /\ streams = <<>>
    /\ procs = <<>>
    /\ sessions = <<>>
    /\ handles = <<>>
    /\ awaitingMedia = 0
    /\ decoding = <<>>
    /\ nconnect = 0
    /\ nframes = 0
    /\ nchunks = 0
    /\ alerts = 0
    /\ interruptions = [sinceStart |-> FALSE, ever |-> FALSE]

Init == AppInit /\ codec = NoSample /\ eventBudget = MaxEvents

\* --------------------------------------------------- the session promise
\* A callback passed to sessionPromiseRef.current.then(...)
SendCb(blob) == [k |-> "send", blob |-> blob]
CloseCb == [k |-> "close", blob |-> <<>>]

\* session => session.sendRealtimeInput({ media: pcmBlob })  /  session => session.close()
RunCallback(sess, cb) ==
    IF cb.k = "send"
    THEN [sess EXCEPT !.sent = Append(@, cb.blob),
                      !.sentClosed = @ \/ sess.closeReq \/ sess.st \in {"failed", "closed"}]
    ELSE [sess EXCEPT !.closeReq = TRUE]

\* a then that calls the session without waiting for the promise
ThenEager(ss, s, cb) == [ss EXCEPT ![s] = RunCallback(@, cb)]

\* promise.then(cb): the callback runs at once (in the microtask that follows
\* the handler) when the promise is resolved, and waits for resolution otherwise
Then(ss, s, cb) ==
    [ss EXCEPT ![s] = IF @.resolved THEN RunCallback(@, cb)
                      ELSE [@ EXCEPT !.thens = Append(@, cb)]]

\* resolution runs the waiting callbacks in the order they were registered
RECURSIVE RunAll(_, _)
RunAll(sess, cbs) ==
    IF cbs = <<>> THEN sess ELSE RunAll(RunCallback(sess, Head(cbs)), Tail(cbs))

\* the session ai.live.connect opens while the output context is ctx
NewSession(ctx) == [st |-> "pending", resolved |-> FALSE, closeReq |-> FALSE,
                    thens |-> <<>>, sent |-> <<>>, captured |-> <<>>, sentClosed |-> FALSE,
                    flushed |-> 0, ctx |-> ctx]

\* -------------------------------------------------------------- cleanup
\* src/App.tsx:78-81
SessionsAfterCleanup(ss) ==
    IF sessionPromiseRef # 0 THEN Then(ss, sessionPromiseRef, CloseCb) ELSE ss

\* source.stop() on every handle of the set S
StopAll(hs, S) ==
    [h \in DOMAIN hs |->
        IF h \in S /\ hs[h].state = "playing" THEN [hs[h] EXCEPT !.state = "stopped"]
        ELSE hs[h]]

\* src/App.tsx:90-96
ProcsAfterCleanup ==
    LET p1 == IF processorRef # 0
              THEN [procs EXCEPT ![processorRef].connected = FALSE,
                                 ![processorRef].onaudioprocess = FALSE]
              ELSE procs
    IN  IF inputSourceRef # 0 THEN [p1 EXCEPT ![inputSourceRef].sourceConnected = FALSE]
        ELSE p1

\* src/App.tsx:97-99
StreamsAfterCleanup ==
    IF streamRef # 0 THEN [streams EXCEPT ![streamRef].live = FALSE] ELSE streams

\* a context as its constructor returns it.  state is the attribute as the
\* program has last read it; closeCalled says that close() has been called,
\* from when on the context renders nothing; rejected says that a close() was
\* called after that, whose promise the platform rejects with an
\* InvalidStateError
NewContext == [state |-> "running", closeCalled |-> FALSE, rejected |-> FALSE]

\* an output context, with its clock
NewOutputContext == [state |-> "running", closeCalled |-> FALSE, rejected |-> FALSE,
                     currentTime |-> 0]

\* what ref.current?.state may be when cleanup() reads it.  After a close()
\* the platform sets the attribute to 'closed', within close() or in a task
\* that it runs later, so that the read finds either value until it has found
\* 'closed'; a null ref has no state
StateRead(cs, ref) ==
    IF ref = 0 THEN {"undefined"}
    ELSE IF cs[ref].state = "closed" THEN {"closed"}
    ELSE IF cs[ref].closeCalled THEN {"running", "closed"}
    ELSE {"running"}

\* if (ref.current?.state !== 'closed') ref.current?.close(), the attribute
\* reading st
CloseUnlessClosed(cs, ref, st) ==
    IF ref = 0 THEN cs
    ELSE IF st = "closed" THEN [cs EXCEPT ![ref].state = "closed"]
    ELSE [cs EXCEPT ![ref].closeCalled = TRUE, ![ref].rejected = @ \/ cs[ref].closeCalled]

\* cleanup() up to its setters (src/App.tsx:77-107), run on the sessions
\* value ss the calling handler has produced
cleanupRefs(ss) ==
    /\ sessions' = SessionsAfterCleanup(ss)
    /\ sessionPromiseRef' = 0
    /\ handles' = StopAll(handles, sourcesRef)
    /\ sourcesRef' = {}
    /\ procs' = ProcsAfterCleanup
    /\ streams' = StreamsAfterCleanup
    /\ \E st \in StateRead(inCtx, inputAudioContextRef) :
           inCtx' = CloseUnlessClosed(inCtx, inputAudioContextRef, st)
    /\ \E st \in StateRead(outCtx, outputAudioContextRef) :
           outCtx' = CloseUnlessClosed(outCtx, outputAudioContextRef, st)
    /\ UNCHANGED <<hasPermission, inputAudioContextRef, outputAudioContextRef,
                   inputSourceRef, processorRef, outputNodeRef, streamRef,
                   nextStartTimeRef>>

\* cleanup()
cleanup(ss) ==
    /\ cleanupRefs(ss)
    /\ status' = SetState(status, DISCONNECTED)
    /\ isUserSpeaking' = SetState(isUserSpeaking, FALSE)
    /\ isAiSpeaking' = SetState(isAiSpeaking, FALSE)

\* ------------------------------------------------- mount-time permission
\* src/App.tsx:62-66
PermissionGranted ==
    /\ permReq = "pending"
    /\ permReq' = "granted"
    /\ hasPermission' = SetState(hasPermission, TRUE)
    /\ UNCHANGED <<status, isUserSpeaking, isAiSpeaking, mounted, API_KEY, codec, eventBudget, nchunks, refs,
                   objects, awaitingMedia, decoding, nconnect, nframes, alerts, interruptions>>

\* src/App.tsx:67-69
PermissionDenied ==
    /\ permReq = "pending"
    /\ permReq' = "denied"
    /\ hasPermission' = SetState(hasPermission, FALSE)
    /\ UNCHANGED <<status, isUserSpeaking, isAiSpeaking, mounted, API_KEY, codec, eventBudget, nchunks, refs,
                   objects, awaitingMedia, decoding, nconnect, nframes, alerts, interruptions>>

\* -------------------------------------------------------------- controls
\* a connect button that is never disabled
ConnectEnabledUngated ==
    /\ mounted
    /\ status # CONNECTED
    /\ status # CONNECTING

\* the connect button is rendered and not disabled
ConnectEnabled ==
    /\ mounted
    /\ status # CONNECTED
    /\ status # CONNECTING
    /\ hasPermission

\* the End Session button is rendered
DisconnectEnabled == mounted /\ status = CONNECTED

\* a connect() without the test of the key
KeyNeverMissing == FALSE

\* if (!API_KEY) of connect()
KeyMissing == API_KEY = ""

\* connect() without an API key: alert and return
ConnectWithoutKey ==
    /\ ConnectEnabled
    /\ KeyMissing
    /\ alerts < MaxAlerts
    /\ alerts' = alerts + 1
    /\ UNCHANGED <<reactState, mounted, API_KEY, codec, eventBudget, nchunks, permReq, refs, objects,
                   awaitingMedia, decoding, nconnect, nframes, interruptions>>

\* connect() up to its await of getUserMedia
ConnectStart ==
    /\ ConnectEnabled
    /\ ~KeyMissing
    /\ nconnect < MaxConnects
    /\ Budget
    /\ nconnect' = nconnect + 1
    /\ status' = SetState(status, CONNECTING)
    /\ inCtx' = Append(inCtx, NewContext)
    /\ inputAudioContextRef' = Len(inCtx) + 1
    /\ outCtx' = Append(outCtx, NewOutputContext)
    /\ outputAudioContextRef' = Len(outCtx) + 1
    /\ outputNodeRef' = Len(outCtx) + 1
    /\ awaitingMedia' = awaitingMedia + 1
    /\ UNCHANGED <<hasPermission, isUserSpeaking, isAiSpeaking, mounted, API_KEY, codec, eventBudget, nchunks, permReq,
                   inputSourceRef, processorRef, sessionPromiseRef, streamRef,
                   nextStartTimeRef, sourcesRef, streams, procs, sessions, handles,
                   decoding, nframes, alerts, interruptions>>

\* getUserMedia resolves: connect() stores the stream and opens the session
ConnectMedia ==
    /\ awaitingMedia > 0
    /\ awaitingMedia' = awaitingMedia - 1
    /\ streams' = Append(streams, [live |-> TRUE])
    /\ streamRef' = Len(streams) + 1
    /\ sessions' = Append(sessions, NewSession(outputAudioContextRef))
    /\ sessionPromiseRef' = Len(sessions) + 1
    /\ UNCHANGED <<reactState, mounted, API_KEY, codec, eventBudget, nchunks, permReq, inputAudioContextRef,
                   outputAudioContextRef, inputSourceRef, processorRef, outputNodeRef,
                   nextStartTimeRef, sourcesRef, inCtx, outCtx, procs, handles,
                   decoding, nconnect, nframes, alerts, interruptions>>

\* getUserMedia rejects: the catch block of connect(): setStatus(ERROR), then
\* cleanup(), whose setStatus(DISCONNECTED) is the update that stays
ConnectFailed ==
    /\ awaitingMedia > 0
    /\ awaitingMedia' = awaitingMedia - 1
    /\ cleanup(sessions)
    /\ UNCHANGED <<mounted, API_KEY, codec, eventBudget, nchunks, permReq, decoding, nconnect, nframes, alerts, interruptions>>

\* the End Session button: onDisconnect = cleanup
Disconnect ==
    /\ DisconnectEnabled
    /\ cleanup(sessions)
    /\ UNCHANGED <<mounted, API_KEY, codec, eventBudget, nchunks, permReq, awaitingMedia, decoding, nconnect, nframes,
                   alerts, interruptions>>

\* the effect cleanup of src/App.tsx:71-73: cleanup() runs while React
\* unmounts App, and React drops the state updates of its three setters
Unmount ==
    /\ mounted
    /\ cleanupRefs(sessions)
    /\ mounted' = FALSE
    /\ UNCHANGED <<status, isUserSpeaking, isAiSpeaking, API_KEY, codec, eventBudget, nchunks, permReq, awaitingMedia, decoding, nconnect, nframes,
                   alerts, interruptions>>

\* ---------------------------------------------------- service callbacks
\* whether inputCtx.createMediaStreamSource(stream) throws: it does not on a
\* running context; on a context that close() was called on it depends on the
\* browser, and an exception ends onopen after setStatus
CreateSourceThrows(c) == IF inCtx[c].closeCalled THEN BOOLEAN ELSE {FALSE}

\* onopen (src/App.tsx:148-179)
onopen(s) ==
    /\ sessions[s].st = "pending"
    /\ sessions' = [sessions EXCEPT ![s].st = "open"]
    /\ status' = SetState(status, CONNECTED)
    /\ IF inputAudioContextRef = 0 \/ streamRef = 0
       THEN UNCHANGED <<procs, inputSourceRef, processorRef>>
       ELSE \E throws \in CreateSourceThrows(inputAudioContextRef) :
                IF throws
                THEN UNCHANGED <<procs, inputSourceRef, processorRef>>
                ELSE /\ procs' = Append(procs, [ctx |-> inputAudioContextRef,
                                                stream |-> streamRef,
                                                onaudioprocess |-> TRUE,
                                                connected |-> TRUE,
                                                sourceConnected |-> TRUE])
                     /\ inputSourceRef' = Len(procs) + 1
                     /\ processorRef' = Len(procs) + 1
    /\ UNCHANGED <<hasPermission, isUserSpeaking, isAiSpeaking, mounted, API_KEY, codec, eventBudget, nchunks, permReq,
                   inputAudioContextRef, outputAudioContextRef, outputNodeRef,
                   sessionPromiseRef, streamRef, nextStartTimeRef, sourcesRef,
                   inCtx, outCtx, streams, handles, awaitingMedia, decoding,
                   nconnect, nframes, alerts, interruptions>>

\* the promise returned by ai.live.connect resolves once the session is open
Resolve(s) ==
    /\ sessions[s].st = "open"
    /\ ~sessions[s].resolved
    /\ sessions' = [sessions EXCEPT
                       ![s] = RunAll([@ EXCEPT !.resolved = TRUE, !.thens = <<>>,
                                                 !.flushed = Len(sessions[s].thens)],
                                     @.thens)]
    /\ UNCHANGED <<reactState, mounted, API_KEY, codec, eventBudget, nchunks, permReq, refs, inCtx, outCtx, streams,
                   procs, handles, awaitingMedia, decoding, nconnect, nframes, alerts,
                   interruptions>>

\* onaudioprocess (src/App.tsx:159-175) of processor p on the frame f
onaudioprocess(p, f) ==
    /\ procs[p].onaudioprocess
    /\ procs[p].connected
    /\ ~inCtx[procs[p].ctx].closeCalled
    /\ nframes < MaxFrames
    /\ Budget
    /\ nframes' = nframes + 1
    /\ isUserSpeaking' = SetState(isUserSpeaking, RmsAboveThreshold(f))
    /\ sessions' = IF sessionPromiseRef # 0
                   THEN Then([sessions EXCEPT ![sessionPromiseRef].captured =
                                                  Append(@, createPcmBlob(f))],
                             sessionPromiseRef, SendCb(createPcmBlob(f)))
                   ELSE sessions
    /\ UNCHANGED <<status, hasPermission, isAiSpeaking, mounted, API_KEY, codec, eventBudget, nchunks, permReq, refs,
                   inCtx, outCtx, streams, procs, handles, awaitingMedia, decoding,
                   nconnect, alerts, interruptions>>

\* a stopped stream feeds the processor silence
FramesOf(p) == IF streams[procs[p].stream].live THEN Frames ELSE {Silence}

\* the interruption branch of onmessage (src/App.tsx:215-221), run on the
\* handles hs and the set S of active sources
InterruptHandles(hs, S) == StopAll(hs, S)

\* history kept with a suspended handler: an interruption was handled (stale),
\* another audio message was handled or started (overtaken) while it waited
MarkStale(ds) == [k \in DOMAIN ds |-> [ds[k] EXCEPT !.stale = TRUE]]
MarkOvertaken(ds) == [k \in DOMAIN ds |-> [ds[k] EXCEPT !.overtaken = TRUE]]

\* nextStartTimeRef.current = Math.max(nextStartTimeRef.current, ctx.currentTime)
SyncTiming(next, now) == Max(next, now)

\* the audio branch is taken (src/App.tsx:184)
HasAudio(d) == d > 0 /\ outputAudioContextRef # 0 /\ outputNodeRef # 0

\* onmessage up to its await of decodeAudioData, for a message that carries
\* audio of duration d; i is its serverContent.interrupted, which the handler
\* reads once the decode has completed
onmessageAudio(s, d, i) ==
    /\ sessions[s].st = "open"
    /\ HasAudio(d)
    /\ nchunks < MaxChunks
    /\ Budget
    /\ nchunks' = nchunks + 1
    /\ isAiSpeaking' = SetState(isAiSpeaking, TRUE)
    /\ nextStartTimeRef' =
           SyncTiming(nextStartTimeRef, outCtx[outputAudioContextRef].currentTime)
    /\ decoding' = Append(MarkOvertaken(decoding),
           [ctx |-> outputAudioContextRef, dur |-> d, interrupted |-> i,
            sess |-> s, seq |-> nchunks + 1,
            callTime |-> outCtx[outputAudioContextRef].currentTime,
            nextAtCall |-> nextStartTimeRef, stale |-> FALSE, overtaken |-> FALSE])
    /\ UNCHANGED <<status, hasPermission, isUserSpeaking, mounted, API_KEY, codec, eventBudget, permReq,
                   inputAudioContextRef, outputAudioContextRef, inputSourceRef,
                   processorRef, outputNodeRef, sessionPromiseRef, streamRef, sourcesRef,
                   objects, awaitingMedia, nconnect, nframes, alerts, interruptions>>

\* onmessage of a message that signals an interruption and carries no audio
onmessageInterrupted(s) ==
    /\ sessions[s].st = "open"
    /\ handles' = InterruptHandles(handles, sourcesRef)
    /\ sourcesRef' = {}
    /\ nextStartTimeRef' = 0
    /\ isAiSpeaking' = SetState(isAiSpeaking, FALSE)
    /\ decoding' = MarkStale(decoding)
    /\ interruptions' = [sinceStart |-> TRUE, ever |-> TRUE]
    /\ UNCHANGED <<status, hasPermission, isUserSpeaking, mounted, API_KEY, codec, eventBudget, nchunks, permReq,
                   inputAudioContextRef, outputAudioContextRef, inputSourceRef,
                   processorRef, outputNodeRef, sessionPromiseRef, streamRef,
                   inCtx, outCtx, streams, procs, sessions, awaitingMedia,
                   nconnect, nframes, alerts>>

\* the buffer source the suspended handler m starts by source.start(when) at
\* clock now: a start time in the past plays at once.  The fields after state
\* are history: what the handler saw when it was invoked and while it waited
NewHandle(m, when, now) ==
    [ctx |-> m.ctx, when |-> when, dur |-> m.dur, endsAt |-> Max(when, now) + m.dur,
     state |-> "playing", interrupted |-> m.interrupted, sess |-> m.sess, seq |-> m.seq,
     callTime |-> m.callTime, nextAtCall |-> m.nextAtCall, stale |-> m.stale,
     overtaken |-> m.overtaken, gapInterrupted |-> interruptions.sinceStart,
     afterInterrupt |-> interruptions.ever]

RemoveAt(q, k) == [j \in 1..(Len(q) - 1) |-> IF j < k THEN q[j] ELSE q[j + 1]]

\* await decodeAudioData(...): the decode of the k-th suspended handler may
\* complete at any time, in any order (spec.md, section 5)
DecodeCompletes(k) == k \in DOMAIN decoding

\* source.connect(outputNodeRef.current) of a source created on the context
\* ctx the handler read before the await: connecting to the gain node of
\* another context throws, and the handler ends there
ConnectThrows(ctx) == outputNodeRef # ctx

\* decodeAudioData resolves for the k-th suspended handler: the rest of
\* onmessage (src/App.tsx:198-221).  The handler starts its source and, when
\* the message is also an interruption, goes on to the interruption branch,
\* which stops that source with the others; an exception of source.connect
\* ends the handler before either
onmessageResume(k) ==
    LET m == decoding[k]
        h == Len(handles) + 1
        when == nextStartTimeRef
        started == Append(handles, NewHandle(m, when, outCtx[m.ctx].currentTime))
        rest == MarkOvertaken(RemoveAt(decoding, k))
    IN  /\ DecodeCompletes(k)
        /\ IF ConnectThrows(m.ctx)
           THEN /\ decoding' = RemoveAt(decoding, k)
                /\ UNCHANGED <<handles, sourcesRef, nextStartTimeRef, interruptions,
                               isAiSpeaking>>
           ELSE IF m.interrupted
           THEN /\ handles' = InterruptHandles(started, sourcesRef \cup {h})
                /\ sourcesRef' = {}
                /\ nextStartTimeRef' = 0
                /\ isAiSpeaking' = SetState(isAiSpeaking, FALSE)
                /\ decoding' = MarkStale(rest)
                /\ interruptions' = [sinceStart |-> TRUE, ever |-> TRUE]
           ELSE /\ handles' = started
                /\ sourcesRef' = sourcesRef \cup {h}
                /\ nextStartTimeRef' = when + m.dur
                /\ decoding' = rest
                /\ interruptions' = [interruptions EXCEPT !.sinceStart = FALSE]
                /\ UNCHANGED isAiSpeaking
        /\ UNCHANGED <<status, hasPermission, isUserSpeaking, mounted, API_KEY, codec, eventBudget, nchunks, permReq,
                       inputAudioContextRef, outputAudioContextRef, inputSourceRef,
                       processorRef, outputNodeRef, sessionPromiseRef, streamRef,
                       inCtx, outCtx, streams, procs, sessions, awaitingMedia,
                       nconnect, nframes, alerts>>

\* if (sourcesRef.current.size === 0) setIsAiSpeaking(false), S being the set
\* after the delete
IndicatorAfterEnded(S, cur) == IF S = {} THEN SetState(cur, FALSE) ELSE cur

\* the 'ended' listener (src/App.tsx:202-207): the event fires when the buffer
\* has played to its end or the source was stopped, on a context that renders
ended(h) ==
    /\ handles[h].state \in {"playing", "stopped"}
    /\ ~outCtx[handles[h].ctx].closeCalled
    /\ handles[h].state = "stopped"
          \/ outCtx[handles[h].ctx].currentTime >= handles[h].endsAt
    /\ handles' = [handles EXCEPT ![h].state = "ended"]
    /\ sourcesRef' = sourcesRef \ {h}
    /\ isAiSpeaking' = IndicatorAfterEnded(sourcesRef \ {h}, isAiSpeaking)
    /\ UNCHANGED <<status, hasPermission, isUserSpeaking, mounted, API_KEY, codec, eventBudget, nchunks, permReq,
                   inputAudioContextRef, outputAudioContextRef, inputSourceRef,
                   processorRef, outputNodeRef, sessionPromiseRef, streamRef,
                   nextStartTimeRef, inCtx, outCtx, streams, procs, sessions,
                   awaitingMedia, decoding, nconnect, nframes, alerts, interruptions>>

\* onclose (src/App.tsx:223-226)
onclose(s) ==
    /\ sessions[s].st \in {"pending", "open", "failed"}
    /\ sessions' = [sessions EXCEPT ![s].st = "closed"]
    /\ status' = SetState(status, DISCONNECTED)
    /\ UNCHANGED <<hasPermission, isUserSpeaking, isAiSpeaking, mounted, API_KEY, codec, eventBudget, nchunks, permReq,
                   refs, inCtx, outCtx, streams, procs, handles, awaitingMedia, decoding,
                   nconnect, nframes, alerts, interruptions>>

\* onerror (src/App.tsx:227-231): setStatus(ERROR), then cleanup(), whose
\* setStatus(DISCONNECTED) is the update that stays
onerror(s) ==
    /\ sessions[s].st \in {"pending", "open"}
    /\ cleanup([sessions EXCEPT ![s].st = "failed"])
    /\ UNCHANGED <<mounted, API_KEY, codec, eventBudget, nchunks, permReq, awaitingMedia, decoding, nconnect, nframes,
                   alerts, interruptions>>

\* the clocks of the output contexts that render advance together
Tick ==
    /\ \E c \in DOMAIN outCtx : ~outCtx[c].closeCalled
    /\ \A c \in DOMAIN outCtx : ~outCtx[c].closeCalled => outCtx[c].currentTime < MaxClock
    /\ outCtx' = [c \in DOMAIN outCtx |->
                     IF ~outCtx[c].closeCalled
                     THEN [outCtx[c] EXCEPT !.currentTime = @ + 1] ELSE outCtx[c]]
    /\ UNCHANGED <<reactState, mounted, API_KEY, codec, eventBudget, nchunks, permReq, refs, inCtx, streams, procs,
                   sessions, handles, awaitingMedia, decoding, nconnect, nframes, alerts,
                   interruptions>>

\* ------------------------------------------------------------------ Next
Next ==
    \/ PermissionGranted
    \/ PermissionDenied
    \/ ConnectWithoutKey
    \/ ConnectStart
    \/ ConnectMedia
    \/ ConnectFailed
    \/ Disconnect
    \/ Unmount
    \/ \E s \in DOMAIN sessions : onopen(s)
    \/ \E s \in DOMAIN sessions : Resolve(s)
    \/ \E p \in DOMAIN procs : \E f \in FramesOf(p) : onaudioprocess(p, f)
    \/ \E s \in DOMAIN sessions : \E d \in Durations : \E i \in BOOLEAN :
           onmessageAudio(s, d, i)
    \/ \E s \in DOMAIN sessions : onmessageInterrupted(s)
    \/ \E k \in DOMAIN decoding : onmessageResume(k)
    \/ \E h \in DOMAIN handles : ended(h)
    \/ \E s \in DOMAIN sessions : onclose(s)
    \/ \E s \in DOMAIN sessions : onerror(s)
    \/ Tick

Spec == Init /\ [][Next]_vars

\* ------------------------------------------- playback and capture, apart
\* The handlers of the microphone frames (onaudioprocess, and the resolution
\* of the session promise that their sends wait for) write isUserSpeaking and
\* what a session has been sent; the handlers of the inbound messages read
\* neither, and write nothing the former read.  The two halves of App are
\* followed apart, each with the whole life of sessions.

\* App without the microphone frames: the life of sessions, what cleanup() is
\* called from, and the inbound messages with their playback
PlaybackNext ==
    \/ PermissionGranted
    \/ PermissionDenied
    \/ ConnectWithoutKey
    \/ ConnectStart
    \/ ConnectMedia
    \/ ConnectFailed
    \/ Disconnect
    \/ Unmount
    \/ \E s \in DOMAIN sessions : onopen(s)
    \/ \E s \in DOMAIN sessions : \E d \in Durations : \E i \in BOOLEAN :
           onmessageAudio(s, d, i)
    \/ \E s \in DOMAIN sessions : onmessageInterrupted(s)
    \/ \E k \in DOMAIN decoding : onmessageResume(k)
    \/ \E h \in DOMAIN handles : ended(h)
    \/ \E s \in DOMAIN sessions : onclose(s)
    \/ \E s \in DOMAIN sessions : onerror(s)
    \/ Tick

PlaybackSpec == Init /\ [][PlaybackNext]_vars

\* App without the inbound messages: the life of sessions, what cleanup() is
\* called from, and the microphone frames with their sending
CaptureNext ==
    \/ PermissionGranted
    \/ PermissionDenied
    \/ ConnectWithoutKey
    \/ ConnectStart
    \/ ConnectMedia
    \/ ConnectFailed
    \/ Disconnect
    \/ Unmount
    \/ \E s \in DOMAIN sessions : onopen(s)
    \/ \E s \in DOMAIN sessions : Resolve(s)
    \/ \E p \in DOMAIN procs : \E f \in FramesOf(p) : onaudioprocess(p, f)
    \/ \E s \in DOMAIN sessions : onclose(s)
    \/ \E s \in DOMAIN sessions : onerror(s)

CaptureSpec == Init /\ [][CaptureNext]_vars

\* ---------------------------------------------- sessions one after another
\* connect() calls and audio messages of a behaviour of two sessions
MaxReconnectEvents == 4

\* the permission has been granted and the key is set; two sessions with a
\* chunk each fit the budget
ReconnectInit ==
    /\ AppInit
    /\ API_KEY = "key"
    /\ codec = NoSample
    /\ eventBudget = MaxReconnectEvents

\* connecting, playback, the End Session button and connecting again: the
\* microphone frames, the failures and the page teardown are left out
ReconnectNext ==
    \/ PermissionGranted
    \/ ConnectStart
    \/ ConnectMedia
    \/ Disconnect
    \/ \E s \in DOMAIN sessions : onopen(s)
    \/ \E s \in DOMAIN sessions : \E d \in Durations : \E i \in BOOLEAN :
           onmessageAudio(s, d, i)
    \/ \E s \in DOMAIN sessions : onmessageInterrupted(s)
    \/ \E k \in DOMAIN decoding : onmessageResume(k)
    \/ \E h \in DOMAIN handles : ended(h)
    \/ Tick

ReconnectSpec == ReconnectInit /\ [][ReconnectNext]_vars

\* the host runs what it has scheduled: a decode completes, an 'ended' event
\* that is due is delivered, the output clocks advance
LiveSpec ==
    /\ PlaybackSpec
    /\ WF_vars(\E k \in DOMAIN decoding : onmessageResume(k))
    /\ WF_vars(\E h \in DOMAIN handles : ended(h))
    /\ WF_vars(Tick)

\* ------------------------------------------------------------- the codec
\* how far outside [-1,1] the samples given to the codec go, in steps of 1/32768
MaxOver == 2

\* the samples of the round trip: every multiple of 1/32768 in [-1,1], and a
\* few beyond both ends
CodecSamples == (-(PcmScale + MaxOver))..(PcmScale + MaxOver)

CodecInit ==
    /\ AppInit
    /\ \E x \in CodecSamples : codec = [NoSample EXCEPT !.stage = "sample", !.x = x]
    /\ eventBudget = MaxEvents

\* encode: the 16-bit value of the sample, packed low byte first (base64 is
\* carried as the bytes it encodes)
CodecEncode ==
    /\ codec.stage = "sample"
    /\ codec' = [codec EXCEPT !.stage = "wire",
                              !.bytes = Int16Bytes(FloatTo16BitPcm(codec.x, PcmScale))]
    /\ UNCHANGED <<reactState, mounted, API_KEY, eventBudget, nchunks, permReq, refs, objects,
                   awaitingMedia, decoding, nconnect, nframes, alerts, interruptions>>

\* decode and decodePlayable: the bytes read as one 16-bit signed value,
\* divided by 32768
CodecDecode ==
    /\ codec.stage = "wire"
    /\ codec' = [codec EXCEPT !.stage = "decoded",
                              !.out = DecodeSample(BytesInt16(codec.bytes))]
    /\ UNCHANGED <<reactState, mounted, API_KEY, eventBudget, nchunks, permReq, refs, objects,
                   awaitingMedia, decoding, nconnect, nframes, alerts, interruptions>>

CodecNext == CodecEncode \/ CodecDecode

CodecSpec == CodecInit /\ [][CodecNext]_vars

\* ---------------------------------------------------------------- claims
\* the end time the scheduler committed for the chunk h
EndOf(h) == handles[h].when + handles[h].dur

\* h and the chunk started before it play on the same output context
SameSession(h) == h > 1 /\ handles[h - 1].ctx = handles[h].ctx

\* C1 as stated, the bound on the previous chunk being taken between
\* interruptions (an interruption stops the previous chunk and resets
\* nextStartTime): every chunk of a session starts no earlier than the end of
\* the chunk started before it, and no earlier than the clock value at which
\* its onmessage handler was invoked, also when handlers wait for their decodes
\* together and when an interruption arrives in between.
C1_NonOverlap ==
    \A h \in DOMAIN handles :
        /\ SameSession(h) /\ ~handles[h].gapInterrupted => handles[h].when >= EndOf(h - 1)
        /\ handles[h].when >= handles[h].callTime

\* C2 as stated: the handler of an interruption leaves activeSources empty,
\* nextStartTime 0 and isAiSpeaking false with every active handle stopped, and
\* a chunk started after an interruption starts no earlier than the clock value
\* its handler read.
C2_InterruptionClears ==
    /\ [][\A s \in DOMAIN sessions :
             onmessageInterrupted(s) =>
                 /\ sourcesRef' = {}
                 /\ nextStartTimeRef' = 0
                 /\ mounted => ~isAiSpeaking'
                 /\ \A h \in sourcesRef : handles'[h].state # "playing"]_vars
    /\ [](\A h \in DOMAIN handles :
             handles[h].afterInterrupt => handles[h].when >= handles[h].callTime)

\* everything cleanup() releases has been released
TornDown ==
    /\ sourcesRef = {}
    /\ \A h \in DOMAIN handles : handles[h].state # "playing"
    /\ \A p \in DOMAIN procs : ~procs[p].onaudioprocess
    /\ \A t \in DOMAIN streams : ~streams[t].live
    /\ \A c \in DOMAIN inCtx : inCtx[c].closeCalled
    /\ \A c \in DOMAIN outCtx : outCtx[c].closeCalled
    /\ ~isUserSpeaking
    /\ ~isAiSpeaking

\* a step that runs the error path: onerror, or the catch block of connect()
ErrorStep == ConnectFailed \/ \E s \in DOMAIN sessions : onerror(s)

\* C3 as stated: after the error handler the status is ERROR, the resources
\* are torn down, and the status stays ERROR until the user connects again.
C3_ErrorSurfaces ==
    /\ [][mounted /\ ErrorStep => status' = ERROR]_vars
    /\ [][status = ERROR /\ status' # ERROR => ConnectStart]_vars

\* C4 as stated: after onclose the status is DISCONNECTED and teardown has been
\* performed.
C4_CloseTearsDown ==
    [][\A s \in DOMAIN sessions :
          onclose(s) /\ sessions[s].st = "open" /\ mounted
              => status' = DISCONNECTED /\ TornDown']_vars

\* a step that runs cleanup() in the mounted App: the End Session button, the
\* error handler of a session, the catch block of connect()
CleanupStep == mounted /\ (Disconnect \/ ErrorStep)

\* running cleanup() again would release no session, source, audio node or
\* media track
CleanupReleased ==
    /\ SessionsAfterCleanup(sessions) = sessions
    /\ sessionPromiseRef = 0
    /\ StopAll(handles, sourcesRef) = handles
    /\ sourcesRef = {}
    /\ ProcsAfterCleanup = procs
    /\ StreamsAfterCleanup = streams

\* no close() has been called on a context that close() had been called on:
\* the platform rejects the promise of such a call with an InvalidStateError,
\* which cleanup() does not handle
NoCloseRejected ==
    /\ \A c \in DOMAIN inCtx : ~inCtx[c].rejected
    /\ \A c \in DOMAIN outCtx : ~outCtx[c].rejected

\* C5 as stated: from every reachable state cleanup() leaves the status
\* DISCONNECTED, both indicators clear, activeSources empty and no session
\* handle; a cleanup() that follows another releases nothing more, closes no
\* audio context that has been closed already and raises no error.
C5_TeardownIdempotent ==
    [][CleanupStep => /\ status' = DISCONNECTED
                      /\ ~isUserSpeaking' /\ ~isAiSpeaking'
                      /\ CleanupReleased'
                      /\ NoCloseRejected']_vars

AllowedTransitions ==
    {<<DISCONNECTED, CONNECTING>>, <<CONNECTING, CONNECTED>>,
     <<CONNECTED, DISCONNECTED>>, <<CONNECTED, ERROR>>,
     <<CONNECTING, DISCONNECTED>>, <<CONNECTING, ERROR>>, <<ERROR, CONNECTING>>}

\* C6 as stated: the status changes only along the transitions of the session
\* state machine; it becomes CONNECTED only from CONNECTING.
C6_StatusTransitions ==
    [][status' # status => <<status, status'>> \in AllowedTransitions]_vars

\* the start time the gap-fill rule gives the chunk h
GapFill(h) == IF handles[h].nextAtCall < handles[h].callTime
              THEN handles[h].callTime ELSE handles[h].nextAtCall

\* a handler that starts a chunk, of a message that is not an interruption,
\* leaves nextStartTime at the end of that chunk
NextIsLastEnd ==
    \A k \in DOMAIN decoding :
        onmessageResume(k) /\ ~ConnectThrows(decoding[k].ctx) /\ ~decoding[k].interrupted
            => nextStartTimeRef' = handles'[Len(handles')].when + handles'[Len(handles')].dur

\* C7 as stated, the rule being a lower bound for a chunk during whose decode
\* another audio message was handled: a chunk handled when the clock is past
\* nextStartTime starts at the clock value, any other chunk starts at the
\* nextStartTime it was handled with, the end of the previous chunk, and
\* nextStartTime becomes the start time plus the duration.
C7_GapFill ==
    /\ [](\A h \in DOMAIN handles :
             /\ ~handles[h].overtaken => handles[h].when = GapFill(h)
             /\ handles[h].when >= GapFill(h))
    /\ [][NextIsLastEnd]_vars

\* C8: no frame reaches sendRealtimeInput before the session promise has
\* resolved, and once it has, the frames sent are the frames captured against
\* that promise, each once, in the order of capture.
C8_QueuedSends ==
    \A s \in DOMAIN sessions :
        /\ ~sessions[s].resolved => sessions[s].sent = <<>>
        /\ sessions[s].resolved => sessions[s].sent = sessions[s].captured
                                   /\ sessions[s].thens = <<>>

\* two different frames waited for the resolution and were sent
C8_Witness ==
    \E s \in DOMAIN sessions :
        /\ sessions[s].resolved
        /\ sessions[s].flushed = 2
        /\ Len(sessions[s].sent) = 2
        /\ sessions[s].sent[1] # sessions[s].sent[2]

\* C9: without an API key connect() alerts and sets nothing up: the status
\* stays DISCONNECTED, and session handle, audio contexts, media stream and
\* scheduler state stay as constructed.
C9_MissingKeyBlocks ==
    API_KEY = "" =>
        /\ status = DISCONNECTED
        /\ sessionPromiseRef = 0 /\ sessions = <<>>
        /\ inputAudioContextRef = 0 /\ outputAudioContextRef = 0 /\ outputNodeRef = 0
        /\ inCtx = <<>> /\ outCtx = <<>>
        /\ streamRef = 0 /\ streams = <<>>
        /\ nextStartTimeRef = 0 /\ sourcesRef = {}
        /\ awaitingMedia = 0

\* connect() has been called without a key
C9_Witness == API_KEY = "" /\ hasPermission /\ alerts = MaxAlerts

\* C10: while hasPermission is false connect() has never been started and the
\* status is DISCONNECTED.
C10_PermissionGate ==
    ~hasPermission => status = DISCONNECTED /\ nconnect = 0 /\ alerts = 0 /\ awaitingMedia = 0

\* the mount-time request has been denied
C10_Witness == permReq = "denied" /\ ~hasPermission /\ mounted

\* the mean of the squared samples of f is strictly greater than 0.02 squared
\* (0.0004), the samples being written in hundredths
MeanSquareAboveLimit(f) == SumSq(f) * 10000 > 4 * Len(f) * SampleDen * SampleDen

\* C11: onopen leaves the status CONNECTED, and onaudioprocess sets
\* isUserSpeaking to true exactly when the root-mean-square of the captured
\* frame is strictly greater than 0.02, and to false otherwise.
C11_IndicatorFollowsRms ==
    /\ [][\A s \in DOMAIN sessions : onopen(s) /\ mounted => status' = CONNECTED]_vars
    /\ [][\A p \in DOMAIN procs : \A f \in Frames :
             onaudioprocess(p, f) /\ mounted
                 => isUserSpeaking' = MeanSquareAboveLimit(f)]_vars

\* connected, a frame of RMS 0.05 and then a frame of silence have been
\* captured, and the indicator is inactive
C11_Witness ==
    /\ status = CONNECTED
    /\ ~isUserSpeaking
    /\ \E s \in DOMAIN sessions :
           sessions[s].captured = <<createPcmBlob(<<5, -5>>), createPcmBlob(Silence)>>

\* |a|
Abs(a) == IF a < 0 THEN -a ELSE a

\* C12: for every sample x in [-1,1] that is a multiple of 1/32768, encoding
\* and then decoding gives a value that differs from x by at most 1/32768.
C12_CodecRoundTrip ==
    codec.stage = "decoded" /\ Abs(codec.x) <= PcmScale
        => codec.out.den = PcmScale /\ Abs(codec.x - codec.out.num) <= 1

\* the full-scale positive sample 1.0 has come back as 32767/32768
C12_Witness ==
    /\ codec.stage = "decoded"
    /\ codec.x = PcmScale
    /\ codec.out = [num |-> 32767, den |-> 32768]

\* cleanup() has run and connect() has not been called since: the output
\* context the refs hold is the one cleanup() closed
AfterCleanup ==
    outputAudioContextRef # 0 /\ outCtx[outputAudioContextRef].closeCalled

\* a step of onmessage: a message is handled, or a handler that waited for its
\* decode goes on
MessageStep ==
    \/ \E s \in DOMAIN sessions : \E d \in Durations : \E i \in BOOLEAN :
           onmessageAudio(s, d, i)
    \/ \E s \in DOMAIN sessions : onmessageInterrupted(s)
    \/ \E k \in DOMAIN decoding : onmessageResume(k)

\* C13 as stated: after cleanup() and before a new connect, a message that is
\* delivered late and a handler that goes on after its decode change nothing:
\* activeSources stays empty, nextStartTime and isAiSpeaking stay as they are
\* and no playback handle is started.
C13_TeardownStopsCallbacks ==
    [][AfterCleanup /\ MessageStep
          => /\ sourcesRef' = {}
             /\ UNCHANGED <<nextStartTimeRef, isAiSpeaking, handles>>]_vars

\* every playback handle started so far has ended
AllEnded == \A h \in DOMAIN handles : handles[h].state = "ended"

\* no onmessage handler waits for a decode and no 'ended' event is to come
Settled == decoding = <<>> /\ AllEnded

\* the examiner is shown as not speaking and nothing is scheduled
AiQuiet == sourcesRef = {} /\ ~isAiSpeaking

\* C14 as stated: the 'ended' listener removes the handle from activeSources
\* and clears isAiSpeaking when the set is then empty; consequently, once the
\* audio messages delivered have all been handled to their end and every
\* started handle has ended, activeSources is empty and isAiSpeaking is false.
C14_AiFinishedEventually ==
    /\ [][\A h \in DOMAIN handles :
             ended(h) => /\ h \notin sourcesRef'
                         /\ sourcesRef' = {} /\ mounted => ~isAiSpeaking']_vars
    /\ [](mounted /\ Settled => AiQuiet)

\* C15 as stated: in every reachable state in which the status is CONNECTED,
\* isAiSpeaking is true when activeSources is not empty.
C15_IndicatorConsistent ==
    mounted /\ status = CONNECTED /\ sourcesRef # {} => isAiSpeaking

\* h is the first chunk started on its output context, it came from the
\* session that was opened with this context, a session was torn down before,
\* and no other onmessage handler ran while its handler waited for the decode
FirstOfNewSession(h) ==
    /\ handles[h].ctx > 1
    /\ \E c \in DOMAIN outCtx : c < handles[h].ctx /\ outCtx[c].closeCalled
    /\ sessions[handles[h].sess].ctx = handles[h].ctx
    /\ \A g \in DOMAIN handles : g < h => handles[g].ctx # handles[h].ctx
    /\ ~handles[h].stale
    /\ ~handles[h].overtaken

\* C16 as stated: after a teardown and a new connect, the first chunk of the
\* new session starts at the value the new output clock has when the chunk is
\* handled, not at a nextStartTime of the session before.
C16_NoSchedulerLeak ==
    \A h \in DOMAIN handles :
        FirstOfNewSession(h) => handles[h].when = handles[h].callTime

\* the script processors whose onaudioprocess callback is registered and runs
CaptureLoops ==
    {p \in DOMAIN procs :
        procs[p].onaudioprocess /\ procs[p].connected
            /\ ~inCtx[procs[p].ctx].closeCalled}

\* the microphone streams whose tracks have not been stopped
LiveStreams == {t \in DOMAIN streams : streams[t].live}

\* C17 as stated: at any time at most one onaudioprocess callback is
\* registered and at most one microphone stream is live.
C17_OneCaptureLoop ==
    /\ Cardinality(CaptureLoops) <= 1
    /\ Cardinality(LiveStreams) <= 1

\* C18 as stated: sendRealtimeInput is never called on a session that has been
\* closed, by session.close() or by the service (onclose, onerror).
C18_NoSendToClosed ==
    \A s \in DOMAIN sessions : ~sessions[s].sentClosed

\* the chunks g and h came from the same session and no interruption was
\* handled before either was started
SameTurn(g, h) ==
    /\ handles[g].sess = handles[h].sess
    /\ ~handles[g].afterInterrupt
    /\ ~handles[h].afterInterrupt

\* C19 as stated: of two chunks of a session, the one whose message was
\* delivered first is started first and is given the smaller start time, also
\* when both handlers waited for their decodes at the same time.
C19_DeliveryOrder ==
    \A g, h \in DOMAIN handles :
        SameTurn(g, h) /\ handles[g].seq < handles[h].seq
            => g < h /\ handles[g].when < handles[h].when

====
